---- MODULE Spec2Model ----
(***************************************************************************)
(* CITP demo peer: the session loop of examples/demo/demo.rs and the TCP   *)
(* frame reader of examples/demo/citp_tcp.rs, over the byte layouts of     *)
(* src/protocol.  Bytes are naturals 0..255, buffers are sequences of      *)
(* bytes, and every decoder works on the bytes as the code does.           *)
(***************************************************************************)
EXTENDS Integers, Sequences, FiniteSets, TLC

\* ---------------------------------------------------------------- bounds
\* messages the TCP peer sends during one run
MaxMsgs == 2
\* Stream ticks that are followed
MaxFrames == 2
\* times a message that consumes no bytes is followed being read again
MaxRepeats == 2
\* elements of an array, and bytes of a string, in a value that is encoded
MaxLen == 2
\* the longest prefix of an encoding that is handed to a decoder by itself
MaxCut == 120

\* ------------------------------------------------------ program constants
CITP_HEADER_LEN == 20
CONTENT_TYPE_LEN == 4
NUM_LASERS == 1

\* ------------------------------------------------------------ byte helpers
\* outcomes of a decoder that is not a cursor position
Eof == -1
Unreachable == -2

Min(a, b) == IF a < b THEN a ELSE b

\* the bytes of b after the first n (b[n..] in the source)
Drop(b, n) == SubSeq(b, n + 1, Len(b))

\* u16 / u32 little-endian at 0-based offset p of b
U16At(b, p) == b[p + 1] + 256 * b[p + 2]
U32At(b, p) == b[p + 1] + 256 * b[p + 2] + 65536 * b[p + 3] + 16777216 * b[p + 4]

\* variant: 16-bit fields are written most significant byte first
U16Bytes_BigEndian(n) == << (n \div 256) % 256, n % 256 >>

U16Bytes(n) == << n % 256, (n \div 256) % 256 >>
U32Bytes(n) == << n % 256, (n \div 256) % 256, (n \div 65536) % 256, (n \div 16777216) % 256 >>

\* a fixed-width read of n bytes at cursor p: the new cursor, or Eof
Take(b, p, n) == IF p < 0 THEN p ELSE IF p + n <= Len(b) THEN p + n ELSE Eof

\* ------------------------------------------------------------ content tags
CITP_COOKIE == << 67, 73, 84, 80 >>
pinf_Header_CONTENT_TYPE == << 80, 73, 78, 70 >>
pinf_PNam_CONTENT_TYPE == << 80, 78, 97, 109 >>
pinf_PLoc_CONTENT_TYPE == << 80, 76, 111, 99 >>
sdmx_Header_CONTENT_TYPE == << 83, 68, 77, 88 >>
sdmx_Capa_CONTENT_TYPE == << 67, 97, 112, 97 >>
sdmx_UNam_CONTENT_TYPE == << 85, 78, 97, 109 >>
caex_Header_CONTENT_TYPE == << 67, 65, 69, 88 >>
msex_Header_CONTENT_TYPE == << 77, 83, 69, 88 >>
\* the CAEX message tags are u32 constants; these are their little-endian bytes
caex_Nack_CONTENT_TYPE == << 255, 255, 255, 255 >>
caex_EnterShow_CONTENT_TYPE == << 0, 1, 2, 0 >>
caex_LeaveShow_CONTENT_TYPE == << 1, 1, 2, 0 >>
caex_FixtureListRequest_CONTENT_TYPE == << 0, 2, 2, 0 >>
caex_FixtureList_CONTENT_TYPE == << 1, 2, 2, 0 >>
caex_FixtureRemove_CONTENT_TYPE == << 3, 2, 2, 0 >>
caex_FixtureConsoleStatus_CONTENT_TYPE == << 0, 4, 2, 0 >>
caex_GetLaserFeedList_CONTENT_TYPE == << 0, 1, 3, 0 >>
caex_LaserFeedList_CONTENT_TYPE == << 1, 1, 3, 0 >>
caex_LaserFeedControl_CONTENT_TYPE == << 2, 1, 3, 0 >>
caex_LaserFeedFrame_CONTENT_TYPE == << 0, 2, 3, 0 >>

\* ------------------------------------------------------------- decoders
\* Each decoder takes the buffer b and a cursor p (bytes already read) and
\* yields the cursor after the value, Eof when the buffer ends first, or
\* Unreachable when the code reaches an unreachable!() arm.

\* protocol::Header::read_from_bytes: Eof, or the decoded envelope.
\* content_type and cookie keep their four bytes (the callers take
\* to_le_bytes() of them at once).
HeaderRead(b) ==
    IF Take(b, 0, 20) < 0 THEN [ok |-> FALSE]
    ELSE [ok |-> TRUE,
          cookie |-> SubSeq(b, 1, 4),
          version_major |-> b[5],
          version_minor |-> b[6],
          kind |-> U16At(b, 6),
          message_size |-> U32At(b, 8),
          message_part_count |-> U16At(b, 12),
          message_part |-> U16At(b, 14),
          content_type |-> SubSeq(b, 17, 20)]

\* mem::size_of::<Header>() of the #[repr(C)] struct
HeaderSizeBytes == 4 + 1 + 1 + 2 + 4 + 2 + 2 + 4

\* variant: the end of the buffer ends a CString as its terminator does
RECURSIVE CStringRead_EndTerminates(_, _)
CStringRead_EndTerminates(b, p) ==
    IF p < 0 THEN p
    ELSE IF p >= Len(b) THEN p
    ELSE IF b[p + 1] = 0 THEN p + 1
    ELSE CStringRead_EndTerminates(b, p + 1)

\* CString: bytes up to and including the first 0
RECURSIVE CStringRead(_, _)
CStringRead(b, p) ==
    IF p < 0 THEN p
    ELSE IF p >= Len(b) THEN Eof
    ELSE IF b[p + 1] = 0 THEN p + 1
    ELSE CStringRead(b, p + 1)

PNamRead(b, p) == CStringRead(b, p)

PLocRead(b, p) == CStringRead(b, CStringRead(b, CStringRead(b, Take(b, p, 2))))

\* read_vec for u16 elements
RECURSIVE read_vec_u16(_, _, _)
read_vec_u16(b, p, len) ==
    IF p < 0 THEN p
    ELSE IF len > 0 THEN read_vec_u16(b, Take(b, p, 2), len - 1)
    ELSE p

CapaRead(b, p) ==
    LET q == Take(b, p, 2)
    IN  IF q < 0 THEN q ELSE read_vec_u16(b, q, U16At(b, p))

LaserFeedControlRead(b, p) == Take(b, Take(b, p, 1), 1)

\* Ucs2: an element count, then that many 2-byte code units
Ucs2Read(b, p) ==
    LET q == Take(b, p, 2)
    IN  IF q < 0 THEN q ELSE Take(b, q, 2 * U16At(b, p))

EnterShowRead(b, p) == Ucs2Read(b, p)

IdentifierRead(b, p) ==
    LET q == Take(b, p, 1)
    IN  IF q < 0 THEN q
        ELSE IF b[p + 1] > 5 THEN Unreachable
        ELSE LET r == Take(b, q, 2)
             IN  IF r < 0 THEN r ELSE Take(b, r, U16At(b, q))

RECURSIVE IdentifiersRead(_, _, _)
IdentifiersRead(b, p, n) ==
    IF p < 0 THEN p
    ELSE IF n > 0 THEN IdentifiersRead(b, IdentifierRead(b, p), n - 1)
    ELSE p

FixtureDataRead(b, p) ==
    LET unit == Ucs2Read(b, Take(b, Take(b, Take(b, p, 1), 1), 2))
        note == Ucs2Read(b, Ucs2Read(b, Take(b, unit, 2)))
    IN  Take(b, Take(b, note, 12), 12)

FixtureRead(b, p) ==
    LET names == Ucs2Read(b, Ucs2Read(b, Ucs2Read(b, Take(b, p, 4))))
        dim == Take(b, Take(b, names, 2), 1)
        cnt == Take(b, dim, 1)
    IN  IF cnt < 0 THEN cnt
        ELSE FixtureDataRead(b, IdentifiersRead(b, cnt, b[dim + 1]))

RECURSIVE FixturesRead(_, _, _)
FixturesRead(b, p, n) ==
    IF p < 0 THEN p
    ELSE IF n > 0 THEN FixturesRead(b, FixtureRead(b, p), n - 1)
    ELSE p

FixtureListRead(b, p) ==
    LET q == Take(b, p, 1)
    IN  IF q < 0 THEN q
        ELSE IF b[p + 1] > 2 THEN Unreachable
        ELSE LET r == Take(b, q, 2)
             IN  IF r < 0 THEN r ELSE FixturesRead(b, r, U16At(b, q))

\* ------------------------------------------------------------- encoders
\* protocol::Header::write_to_bytes
HeaderWrite(h) ==
    h.cookie \o << h.version_major, h.version_minor >> \o U16Bytes(h.kind)
      \o U32Bytes(h.message_size) \o U16Bytes(h.message_part_count)
      \o U16Bytes(h.message_part) \o h.content_type

\* the envelope every peer of this model writes: "CITP", version 1.0,
\* request index 0, one part
Envelope(message_size, layer) ==
    HeaderWrite([cookie |-> CITP_COOKIE, version_major |-> 1, version_minor |-> 0,
                 kind |-> 0, message_size |-> message_size,
                 message_part_count |-> 1, message_part |-> 0,
                 content_type |-> layer])

\* a whole message: envelope, message tag, payload, with the envelope's
\* message_size the number of bytes written
Framed(layer, tag, payload) ==
    Envelope(CITP_HEADER_LEN + CONTENT_TYPE_LEN + Len(payload), layer) \o tag \o payload

\* ------------------------------------------------- payload writers and sizes
\* CString: as_bytes_with_nul(); s holds the bytes before the terminator
CStringWrite(s) == s \o << 0 >>

CStringSizeBytes(s) == Len(s) + 1

PNamWrite(v) == CStringWrite(v.name)

PNamSizeBytes(v) == CStringSizeBytes(v.name)

PLocWrite(v) ==
    U16Bytes(v.listening_tcp_port) \o CStringWrite(v.kind) \o CStringWrite(v.name)
      \o CStringWrite(v.state)

PLocSizeBytes(v) ==
    2 + CStringSizeBytes(v.kind) + CStringSizeBytes(v.name) + CStringSizeBytes(v.state)

\* Ucs2: the element count, then the 2-byte code units (s holds their bytes)
Ucs2Write(s) == U16Bytes((Len(s) \div 2) % 65536) \o s

Ucs2SizeBytes(s) == 2 + Len(s)

LaserPointWrite(p) ==
    << p.x_low_byte, p.y_low_byte, p.xy_high_nibbles >> \o U16Bytes(p.color)

\* variant: the size of the #[repr(C)] struct, with its padding byte
LaserPointSizeBytes_StructSize(p) == 1 + 1 + 1 + 1 + 2

LaserPointSizeBytes(p) == 1 + 1 + 1 + 2

RECURSIVE LaserPointsWrite(_)
LaserPointsWrite(points) ==
    IF points = << >> THEN << >>
    ELSE LaserPointWrite(Head(points)) \o LaserPointsWrite(Tail(points))

RECURSIVE LaserPointsSizeBytes(_)
LaserPointsSizeBytes(points) ==
    IF points = << >> THEN 0
    ELSE LaserPointSizeBytes(Head(points)) + LaserPointsSizeBytes(Tail(points))

\* source_key keeps its four bytes
LaserFeedFrameWrite(v) ==
    v.source_key \o << v.feed_index >> \o U32Bytes(v.frame_sequence)
      \o U16Bytes(Len(v.points) % 65536) \o LaserPointsWrite(v.points)

LaserFeedFrameSizeBytes(v) == 4 + 1 + 4 + 2 + LaserPointsSizeBytes(v.points)

IdentifierWrite(v) ==
    << v.identifier_type >> \o U16Bytes(v.data_size) \o SubSeq(v.data, 1, v.data_size)

IdentifierSizeBytes(v) == 1 + 2 + Len(v.data)

RECURSIVE IdentifiersWrite(_)
IdentifiersWrite(ids) ==
    IF ids = << >> THEN << >>
    ELSE IdentifierWrite(Head(ids)) \o IdentifiersWrite(Tail(ids))

RECURSIVE IdentifiersSizeBytes(_)
IdentifiersSizeBytes(ids) ==
    IF ids = << >> THEN 0
    ELSE IdentifierSizeBytes(Head(ids)) + IdentifiersSizeBytes(Tail(ids))

\* position and angles keep the twelve bytes of their three f32 each
FixtureDataWrite(v) ==
    << v.patched, v.universe >> \o U16Bytes(v.universe_channel) \o Ucs2Write(v.unit)
      \o U16Bytes(v.channel) \o Ucs2Write(v.circuit) \o Ucs2Write(v.note)
      \o v.position \o v.angles

FixtureDataSizeBytes(v) ==
    1 + 1 + 2 + Ucs2SizeBytes(v.unit) + 2 + Ucs2SizeBytes(v.circuit)
      + Ucs2SizeBytes(v.note) + (4 * 3) + (4 * 3)

\* fixture_identifier keeps its four bytes
FixtureWrite(v) ==
    v.fixture_identifier \o Ucs2Write(v.manufacturer_name) \o Ucs2Write(v.fixture_name)
      \o Ucs2Write(v.mode_name) \o U16Bytes(v.channel_count)
      \o << v.is_dimmer, v.identifier_count >> \o IdentifiersWrite(v.identifiers)
      \o FixtureDataWrite(v.data)

FixtureSizeBytes(v) ==
    4 + Ucs2SizeBytes(v.manufacturer_name) + Ucs2SizeBytes(v.fixture_name)
      + Ucs2SizeBytes(v.mode_name) + 2 + 1 + 1 + IdentifiersSizeBytes(v.identifiers)
      + FixtureDataSizeBytes(v.data)

RECURSIVE FixturesWrite(_)
FixturesWrite(fixtures) ==
    IF fixtures = << >> THEN << >>
    ELSE FixtureWrite(Head(fixtures)) \o FixturesWrite(Tail(fixtures))

RECURSIVE FixturesSizeBytes(_)
FixturesSizeBytes(fixtures) ==
    IF fixtures = << >> THEN 0
    ELSE FixtureSizeBytes(Head(fixtures)) + FixturesSizeBytes(Tail(fixtures))

FixtureListWrite(v) ==
    << v.message_type >> \o U16Bytes(v.fixture_count) \o FixturesWrite(v.fixtures)

FixtureListSizeBytes(v) == 1 + 2 + FixturesSizeBytes(v.fixtures)

\* ------------------------------------------- the messages the session builds
\* pinf::Header / caex::Header: the envelope, then the message tag
LayerHeaderWrite(h) == HeaderWrite(h.citp_header) \o h.content_type

pinf_header(pinf_message_size, content_type) ==
    [citp_header |->
         [cookie |-> CITP_COOKIE, version_major |-> 1, version_minor |-> 0, kind |-> 0,
          message_size |-> CITP_HEADER_LEN + CONTENT_TYPE_LEN + pinf_message_size,
          message_part_count |-> 1, message_part |-> 0,
          content_type |-> pinf_Header_CONTENT_TYPE],
     content_type |-> content_type]

caex_header(caex_message_size, content_type) ==
    [citp_header |->
         [cookie |-> CITP_COOKIE, version_major |-> 1, version_minor |-> 0, kind |-> 0,
          message_size |-> CITP_HEADER_LEN + CONTENT_TYPE_LEN + caex_message_size,
          message_part_count |-> 1, message_part |-> 0,
          content_type |-> caex_Header_CONTENT_TYPE],
     content_type |-> content_type]

\* each builder yields the message's header and what write_to_bytes emits for it
peer_location ==
    LET ploc == [listening_tcp_port |-> 0,
                 kind |-> << 76, 105, 103, 104, 116, 105, 110, 103, 67, 111, 110, 115, 111, 108, 101 >>,
                 name |-> 
                          << 82, 117, 115, 116, 121, 32, 80, 114, 101, 118, 105, 122, 32, 84, 111, 111, 108 >>,
                 state |-> 
                           << 70, 105, 114, 105, 110, 103, 32, 122, 101, 32, 108, 97, 115, 101, 114, 115 >>]
    IN  [header |-> pinf_header(PLocSizeBytes(ploc), pinf_PLoc_CONTENT_TYPE),
         payload |-> PLocWrite(ploc)]

connect_to_capture ==
    LET pnam == [name |-> 
                    << 82, 117, 115, 116, 121, 32, 76, 97, 115, 101, 114, 32, 83, 111, 102, 116, 119, 97, 114, 101 >>]
    IN  [header |-> pinf_header(PNamSizeBytes(pnam), pinf_PNam_CONTENT_TYPE),
         payload |-> PNamWrite(pnam)]

\* message_type 0x00 is ExistingPatchList
new_fixture_list ==
    LET fixture_list == [message_type |-> 0, fixture_count |-> 0, fixtures |-> << >>]
    IN  [header |-> caex_header(FixtureListSizeBytes(fixture_list),
                                caex_FixtureList_CONTENT_TYPE),
         payload |-> FixtureListWrite(fixture_list)]

\* The five corner points are computed in floating point from frame_num and
\* feed_index; their values are outside this model, which carries the point
\* it is given five times over.
stream_laser_frame(source_key, frame_num, feed_index, point) ==
    LET points == << point, point, point, point, point >>
        feed_frame == [source_key |-> source_key, feed_index |-> feed_index,
                       frame_sequence |-> frame_num, point_count |-> Len(points),
                       points |-> points]
    IN  [header |-> caex_header(LaserFeedFrameSizeBytes(feed_frame),
                                caex_LaserFeedFrame_CONTENT_TYPE),
         payload |-> LaserFeedFrameWrite(feed_frame)]

\* Message<T>::write_to_bytes: the layer header, then the message
MessageWrite(msg) == LayerHeaderWrite(msg.header) \o msg.payload

\* The datagram sent for a message: the message is written at the start of
\* a zeroed buffer and the first message_size bytes of the buffer are sent.
UdpDatagram(msg) ==
    LET written == MessageWrite(msg)
    IN  [i \in 1 .. msg.header.citp_header.message_size |->
             IF i <= Len(written) THEN written[i] ELSE 0]

\* ------------------------------------------------ the TCP peer's messages
\* What the connected peer may send.  The first group are well-formed
\* messages of layers read_message knows; the rest are the irregular ones.
ValidKinds ==
    { "PNam", "Capa", "Nack", "GetLaserFeedList", "LaserFeedControl", "EnterShow",
      "LeaveShow", "FixtureListRequest", "FixtureList" }

UnknownTagKinds == { "PinfUnknown", "SdmxUNam", "CaexUnknown" }

UnknownLayerKinds == { "Msex" }

MalformedKinds == { "PNamNoNul", "LaserFeedControlShort" }

UndersizeKinds == { "ZeroSize" }

MsgKinds ==
    ValidKinds \cup UnknownTagKinds \cup UnknownLayerKinds \cup MalformedKinds
      \cup UndersizeKinds

MsgBytes(k) ==
    CASE k = "PNam" -> Framed(pinf_Header_CONTENT_TYPE, pinf_PNam_CONTENT_TYPE, << 65, 0 >>)
      [] k = "Capa" -> Framed(sdmx_Header_CONTENT_TYPE, sdmx_Capa_CONTENT_TYPE, << 1, 0, 1, 0 >>)
      [] k = "Nack" -> Framed(caex_Header_CONTENT_TYPE, caex_Nack_CONTENT_TYPE, << 0 >>)
      [] k = "GetLaserFeedList" ->
             Framed(caex_Header_CONTENT_TYPE, caex_GetLaserFeedList_CONTENT_TYPE, << >>)
      [] k = "LaserFeedControl" ->
             Framed(caex_Header_CONTENT_TYPE, caex_LaserFeedControl_CONTENT_TYPE, << 0, 0 >>)
      [] k = "EnterShow" ->
             Framed(caex_Header_CONTENT_TYPE, caex_EnterShow_CONTENT_TYPE, << 1, 0, 83, 0 >>)
      [] k = "LeaveShow" -> Framed(caex_Header_CONTENT_TYPE, caex_LeaveShow_CONTENT_TYPE, << >>)
      [] k = "FixtureListRequest" ->
             Framed(caex_Header_CONTENT_TYPE, caex_FixtureListRequest_CONTENT_TYPE, << >>)
      [] k = "FixtureList" ->
             Framed(caex_Header_CONTENT_TYPE, caex_FixtureList_CONTENT_TYPE, << 0, 0, 0 >>)
      [] k = "PinfUnknown" -> Framed(pinf_Header_CONTENT_TYPE, << 80, 88, 120, 120 >>, << >>)
      [] k = "SdmxUNam" ->
             Framed(sdmx_Header_CONTENT_TYPE, sdmx_UNam_CONTENT_TYPE, << 0, 85, 0 >>)
      [] k = "CaexUnknown" -> Framed(caex_Header_CONTENT_TYPE, << 9, 9, 9, 0 >>, << >>)
      [] k = "Msex" -> Framed(msex_Header_CONTENT_TYPE, << 83, 73, 110, 102 >>, << >>)
      [] k = "PNamNoNul" -> Framed(pinf_Header_CONTENT_TYPE, pinf_PNam_CONTENT_TYPE, << 65 >>)
      [] k = "LaserFeedControlShort" ->
             Framed(caex_Header_CONTENT_TYPE, caex_LaserFeedControl_CONTENT_TYPE, << >>)
      [] k = "ZeroSize" ->
             Envelope(0, caex_Header_CONTENT_TYPE) \o caex_LeaveShow_CONTENT_TYPE

\* --------------------------------------------------- CitpTcp::read_message
\* demo.rs layer_two_content_type: the four bytes after the envelope.  The
\* slice panics when the data is shorter than header_size + CONTENT_TYPE_LEN.
LayerTwoInBounds(data, header_size) == header_size + CONTENT_TYPE_LEN <= Len(data)

layer_two_content_type(data, header_size) ==
    SubSeq(data, header_size + 1, header_size + CONTENT_TYPE_LEN)

NoState == "None"

\* variant: the default arm of the PINF match panics like the layer match
PinfArmPanics_DefaultPanics(tag, received, read_offset) ==
    IF tag = pinf_PNam_CONTENT_TYPE THEN PNamRead(received, read_offset) < 0
    ELSE IF tag = pinf_PLoc_CONTENT_TYPE THEN PLocRead(received, read_offset) < 0
    ELSE TRUE

\* the match on the PINF message tag: TRUE when an unwrap() panics
PinfArmPanics(tag, received, read_offset) ==
    IF tag = pinf_PNam_CONTENT_TYPE THEN PNamRead(received, read_offset) < 0
    ELSE IF tag = pinf_PLoc_CONTENT_TYPE THEN PLocRead(received, read_offset) < 0
    ELSE FALSE

\* the match on the SDMX message tag
SdmxArmPanics(tag, received, read_offset) ==
    IF tag = sdmx_Capa_CONTENT_TYPE THEN CapaRead(received, read_offset) < 0
    ELSE FALSE

\* the match on the CAEX message tag: does it panic, and the state it reports
CaexArm(tag, received, read_offset) ==
    IF tag = caex_Nack_CONTENT_TYPE THEN [panic |-> FALSE, caex_state |-> NoState]
    ELSE IF tag = caex_GetLaserFeedList_CONTENT_TYPE
      THEN [panic |-> FALSE, caex_state |-> "GetLaserFeedList"]
    ELSE IF tag = caex_LaserFeedList_CONTENT_TYPE THEN [panic |-> FALSE, caex_state |-> NoState]
    ELSE IF tag = caex_LaserFeedControl_CONTENT_TYPE
      THEN [panic |-> LaserFeedControlRead(received, read_offset) < 0,
            caex_state |-> "LaserFeedControl"]
    ELSE IF tag = caex_LaserFeedFrame_CONTENT_TYPE THEN [panic |-> FALSE, caex_state |-> NoState]
    ELSE IF tag = caex_EnterShow_CONTENT_TYPE
      THEN [panic |-> EnterShowRead(received, read_offset) < 0, caex_state |-> "EnterShow"]
    ELSE IF tag = caex_LeaveShow_CONTENT_TYPE THEN [panic |-> FALSE, caex_state |-> "LeaveShow"]
    ELSE IF tag = caex_FixtureListRequest_CONTENT_TYPE
      THEN [panic |-> FALSE, caex_state |-> "FixtureListRequest"]
    ELSE IF tag = caex_FixtureList_CONTENT_TYPE
      THEN [panic |-> FixtureListRead(received, read_offset) < 0, caex_state |-> NoState]
    ELSE [panic |-> FALSE, caex_state |-> NoState]

Panicked(received) ==
    [panic |-> TRUE, caex_state |-> NoState, processed |-> 0, n |-> 0,
     layer |-> << >>, tag |-> << >>]

\* One pass through the body of the while loop, for a non-empty buffer.
LoopBody(received) ==
    LET header == HeaderRead(received)
        header_size == HeaderSizeBytes
        read_offset == header_size + CONTENT_TYPE_LEN
    IN  IF ~header.ok THEN Panicked(received)
        ELSE IF ~LayerTwoInBounds(received, header_size) THEN Panicked(received)
        ELSE
          LET tag == layer_two_content_type(received, header_size)
              arm ==
                IF header.content_type = pinf_Header_CONTENT_TYPE
                  THEN [panic |-> PinfArmPanics(tag, received, read_offset),
                        caex_state |-> NoState]
                ELSE IF header.content_type = sdmx_Header_CONTENT_TYPE
                  THEN [panic |-> SdmxArmPanics(tag, received, read_offset),
                        caex_state |-> NoState]
                ELSE IF header.content_type = caex_Header_CONTENT_TYPE
                  THEN CaexArm(tag, received, read_offset)
                ELSE [panic |-> TRUE, caex_state |-> NoState]
          IN  IF arm.panic THEN Panicked(received)
              \* received.drain(message_size..) panics past the end
              ELSE IF header.message_size > Len(received) THEN Panicked(received)
              ELSE [panic |-> FALSE, caex_state |-> arm.caex_state,
                    processed |-> header.message_size, n |-> 1,
                    layer |-> header.content_type, tag |-> tag]

\* while !received.is_empty() { ... break; }: the body runs at most once
read_message(received) ==
    IF received = << >>
      THEN [panic |-> FALSE, caex_state |-> NoState, processed |-> 0, n |-> 0,
            layer |-> << >>, tag |-> << >>]
    ELSE LoopBody(received)

\* BufReader::consume: the read position never passes the filled end
Consume(received, amt) == Drop(received, Min(amt, Len(received)))

\* ------------------------------------------------------ discovery datagrams
\* What the multicast socket may receive while the session is in Connect.
DatagramKinds ==
    { "PLoc0", "PLocN", "PLocSelf", "PLocCut", "PNam", "Caex", "Short", "NoTag" }

DatagramBytes(d) ==
    CASE d = "PLoc0" -> Framed(pinf_Header_CONTENT_TYPE, pinf_PLoc_CONTENT_TYPE,
                               << 0, 0, 76, 0, 40, 104, 41, 0, 0 >>)
      [] d = "PLocN" -> Framed(pinf_Header_CONTENT_TYPE, pinf_PLoc_CONTENT_TYPE,
                               << 1, 0, 76, 0, 40, 104, 41, 0, 0 >>)
      [] d = "PLocSelf" -> Framed(pinf_Header_CONTENT_TYPE, pinf_PLoc_CONTENT_TYPE,
                                  << 0, 0, 76, 0, 82, 116, 0, 70, 0 >>)
      [] d = "PLocCut" -> Framed(pinf_Header_CONTENT_TYPE, pinf_PLoc_CONTENT_TYPE,
                                 << 1, 0, 76, 0, 40, 104, 41, 0, 70 >>)
      [] d = "PNam" -> Framed(pinf_Header_CONTENT_TYPE, pinf_PNam_CONTENT_TYPE, << 65, 0 >>)
      [] d = "Caex" -> Framed(caex_Header_CONTENT_TYPE, caex_LaserFeedFrame_CONTENT_TYPE, << >>)
      [] d = "Short" -> SubSeq(Envelope(24, pinf_Header_CONTENT_TYPE), 1, 10)
      [] d = "NoTag" -> Envelope(24, pinf_Header_CONTENT_TYPE)

\* index (0-based) of the first c in s at or after i, or -1: str::find
RECURSIVE Find(_, _, _)
Find(s, c, i) ==
    IF i >= Len(s) THEN -1
    ELSE IF s[i + 1] = c THEN i
    ELSE Find(s, c, i + 1)

\* demo.rs extract_ip_address: [panic, host]
extract_ip_address(s) ==
    LET open == Find(s, 40, 0)
        close == Find(s, 41, 0)
        start_bytes == (IF open < 0 THEN 0 ELSE open) + 1
        end_bytes == IF close < 0 THEN Len(s) ELSE close
    IN  IF start_bytes > end_bytes \/ end_bytes > Len(s)
          THEN [panic |-> TRUE, host |-> << >>]
          ELSE [panic |-> FALSE, host |-> SubSeq(s, start_bytes + 1, end_bytes)]

\* the fields of a PLoc whose decoding succeeded at offset p
PLocFields(b, p) ==
    LET kindEnd == CStringRead(b, p + 2)
        nameEnd == CStringRead(b, kindEnd)
    IN  [listening_tcp_port |-> U16At(b, p),
         name |-> SubSeq(b, kindEnd + 1, nameEnd - 1)]

\* The Connect arm for one received datagram: what it ends in, and the
\* connection it attempts.  "ignore" leaves everything as it was, "connect"
\* calls TcpStream::connect, "error" returns Err from main, "panic" aborts.
ConnectArm(data) ==
    LET header == HeaderRead(data)
        header_size == HeaderSizeBytes
        none == [host |-> << >>, port |-> 0]
    IN  IF ~header.ok THEN [do |-> "error", to |-> none]
        ELSE IF header.content_type # pinf_Header_CONTENT_TYPE THEN [do |-> "ignore", to |-> none]
        ELSE IF ~LayerTwoInBounds(data, header_size) THEN [do |-> "panic", to |-> none]
        ELSE IF layer_two_content_type(data, header_size) # pinf_PLoc_CONTENT_TYPE
          THEN [do |-> "ignore", to |-> none]
        ELSE IF PLocRead(data, header_size + CONTENT_TYPE_LEN) < 0
          THEN [do |-> "error", to |-> none]
        ELSE
          LET ploc == PLocFields(data, header_size + CONTENT_TYPE_LEN)
              ip == extract_ip_address(ploc.name)
          IN  IF ip.panic THEN [do |-> "panic", to |-> none]
              ELSE [do |-> "connect",
                    to |-> [host |-> ip.host, port |-> ploc.listening_tcp_port]]

\* ------------------------------------------------------------------ state
VARIABLES
    state,            \* State: "Init", "Connect", "Request", "Stream"
    exit,             \* "running"; "error" once main returned Err; "panic"
    citp_tcp_stream,  \* Option<CitpTcp>: TRUE for Some
    frame_num,
    buf,              \* bytes the BufReader holds and has not consumed
    wire,             \* bytes the peer sent that the BufReader has not read
    conn,             \* the peer's end: "open", "closed" (EOF), "reset"
    sent,             \* history: kinds of the messages the peer sent
    dispatched,       \* history: the messages read_message went through
    tcp_out,          \* history: messages written to the TCP connection
    udp_out,          \* datagrams sent during the latest tick
    connects,         \* history: TcpStream::connect calls, as [host, port]
    dgram,            \* the datagram the latest Connect tick received
    call,             \* the latest read_message call
    codec             \* a value of the protocol module on its way through the codec

\* the variables of the session
session ==
    << state, exit, citp_tcp_stream, frame_num, buf, wire, conn, sent, dispatched,
       tcp_out, udp_out, connects, dgram, call >>

vars ==
    << state, exit, citp_tcp_stream, frame_num, buf, wire, conn, sent, dispatched,
       tcp_out, udp_out, connects, dgram, call, codec >>

NoEntry == [empty |-> TRUE, complete |-> 0, layer |-> << >>, tag |-> << >>, size |-> -1,
            frame |-> << >>]

NoCall == [entry |-> NoEntry, returned |-> "none", caex_state |-> NoState, n |-> 0,
           processed |-> 0]

\* no value is in the codec
NoCodec ==
    [stage |-> "none", value |-> [type |-> "none"], bytes |-> << >>, size |-> 0,
     decoded |-> [ok |-> FALSE]]

SessionInit ==
    /\ state = "Init"
    /\ exit = "running"
    /\ citp_tcp_stream = FALSE
    /\ frame_num = 0
    /\ buf = << >>
    /\ wire = << >>
    /\ conn = "open"
    /\ sent = << >>
    /\ dispatched = << >>
    /\ tcp_out = << >>
    /\ udp_out = << >>
    /\ connects = << >>
    /\ dgram = "none"
    /\ call = NoCall

Init == SessionInit /\ codec = NoCodec

PLocDatagram == [type |-> "PLoc", feed_index |-> 0, frame_sequence |-> 0]

\* ---------------------------------------------------------------- actions
\* variant: a failed join returns the error from main
InitTick_FailureFatal ==
    /\ UNCHANGED codec
    /\ exit = "running" /\ state = "Init"
    /\ \E joined \in BOOLEAN :
         /\ state' = IF joined THEN "Connect" ELSE "Init"
         /\ exit' = IF joined THEN "running" ELSE "error"
    /\ udp_out' = << >>
    /\ UNCHANGED << citp_tcp_stream, frame_num, buf, wire, conn, sent, dispatched,
                    tcp_out, connects, dgram, call >>

\* State::Init: join the multicast group; a failure is printed and retried
InitTick ==
    /\ UNCHANGED codec
    /\ exit = "running" /\ state = "Init"
    /\ \E joined \in BOOLEAN :
         state' = IF joined THEN "Connect" ELSE "Init"
    /\ udp_out' = << >>
    /\ UNCHANGED << exit, citp_tcp_stream, frame_num, buf, wire, conn, sent, dispatched,
                    tcp_out, connects, dgram, call >>

\* variant: the connection is handed over without the PNam being written
Handshake_Omitted == << >>

\* what the Connect arm writes and flushes on the connection it just opened
Handshake == << "PNam" >>

\* State::Connect: one non-blocking recv_from, then the arm for what arrived
ConnectTick ==
    /\ UNCHANGED codec
    /\ exit = "running" /\ state = "Connect"
    /\ \E d \in DatagramKinds \cup {"none"}, connected \in BOOLEAN :
         LET arm == IF d = "none" THEN [do |-> "ignore"] ELSE ConnectArm(DatagramBytes(d))
         IN  /\ dgram' = d
             /\ connects' = IF arm.do = "connect" THEN Append(connects, arm.to) ELSE connects
             /\ exit' = IF arm.do = "error" THEN "error"
                        ELSE IF arm.do = "panic" \/ (arm.do = "connect" /\ ~connected)
                          THEN "panic"
                        ELSE "running"
             /\ IF arm.do = "connect" /\ connected
                  THEN /\ tcp_out' = tcp_out \o Handshake
                       /\ citp_tcp_stream' = TRUE
                       /\ state' = "Request"
                  ELSE UNCHANGED << tcp_out, citp_tcp_stream, state >>
    /\ udp_out' = << >>
    /\ UNCHANGED << frame_num, buf, wire, conn, sent, dispatched, call >>

\* What a read_message call found in `received` at entry, kept for the
\* record of the call: how many whole frames stand at the head (a frame is
\* whole when its envelope is there and message_size, at least an envelope
\* and a tag, is within the bytes), the head's envelope as far as present,
\* and the head frame's own bytes when it is whole.
RECURSIVE CompleteFrames(_)
CompleteFrames(received) ==
    LET header == HeaderRead(received)
    IN  IF ~header.ok THEN 0
        ELSE IF header.message_size < CITP_HEADER_LEN + CONTENT_TYPE_LEN THEN 0
        ELSE IF header.message_size > Len(received) THEN 0
        ELSE 1 + CompleteFrames(Drop(received, header.message_size))

Entry(received) ==
    LET header == HeaderRead(received)
    IN  [empty |-> received = << >>,
         complete |-> CompleteFrames(received),
         layer |-> IF header.ok THEN header.content_type ELSE << >>,
         tag |-> IF header.ok /\ LayerTwoInBounds(received, HeaderSizeBytes)
                   THEN layer_two_content_type(received, HeaderSizeBytes) ELSE << >>,
         size |-> IF header.ok THEN header.message_size ELSE -1,
         frame |-> IF CompleteFrames(received) > 0
                     THEN SubSeq(received, 1, header.message_size) ELSE << >>]

\* BufReader::fill_buf on the blocking TcpStream: the bytes it returns.
\* Unconsumed bytes are returned as they are, without a read; an empty
\* buffer reads once, and the read yields any non-empty prefix of what has
\* arrived, nothing at end-of-stream, an error after a reset, and waits
\* (no outcome) while the peer is connected and silent.
FillBuf ==
    IF buf # << >> THEN { [ok |-> TRUE, received |-> buf, rest |-> wire] }
    ELSE IF wire # << >>
      THEN { [ok |-> TRUE, received |-> SubSeq(wire, 1, k), rest |-> Drop(wire, k)] :
               k \in 1 .. Len(wire) }
    ELSE IF conn = "closed" THEN { [ok |-> TRUE, received |-> << >>, rest |-> << >>] }
    ELSE IF conn = "reset" THEN { [ok |-> FALSE, received |-> << >>, rest |-> << >>] }
    ELSE { }

\* variant: the GetLaserFeedList arm is missing
Response_NoFeedList(caex_state) ==
    IF caex_state = "EnterShow" THEN << "EnterShow" >>
    ELSE IF caex_state = "FixtureListRequest" THEN << "FixtureList" >>
    ELSE << >>

\* variant: a LeaveShow is acknowledged like an EnterShow
Response_AcksLeaveShow(caex_state) ==
    IF caex_state \in { "EnterShow", "LeaveShow" } THEN << "EnterShow" >>
    ELSE IF caex_state = "GetLaserFeedList" THEN << "LaserFeedList" >>
    ELSE IF caex_state = "FixtureListRequest" THEN << "FixtureList" >>
    ELSE << >>

\* the message the Request arm writes for a reported CAEX state
Response(caex_state) ==
    IF caex_state = "EnterShow" THEN << "EnterShow" >>
    ELSE IF caex_state = "GetLaserFeedList" THEN << "LaserFeedList" >>
    ELSE IF caex_state = "FixtureListRequest" THEN << "FixtureList" >>
    ELSE << >>

\* variant: a message other than the FixtureListRequest sends the session
\* back to discovery
NextState_BackToConnect(caex_state) ==
    IF caex_state = "FixtureListRequest" THEN "Stream" ELSE "Connect"

\* variant: the Request arm moves to Stream after any message
NextState_StreamsAtOnce(caex_state) == "Stream"

\* variant: the FixtureListRequest arm forgets `state = State::Stream`
NextState_Stays(caex_state) == "Request"

\* the state after the Request arm: Stream after a FixtureListRequest
NextState(caex_state) == IF caex_state = "FixtureListRequest" THEN "Stream" ELSE "Request"

\* State::Request: announce, read one message, answer it.  A panic or an
\* Err return ends the process, and its buffers with it.
RequestTick ==
    /\ UNCHANGED codec
    /\ exit = "running" /\ state = "Request" /\ citp_tcp_stream
    /\ Len(dispatched) < MaxMsgs + MaxRepeats
    /\ \E f \in FillBuf :
         LET r == read_message(f.received)
         IN  IF ~f.ok
               THEN /\ exit' = "error"
                    /\ call' = [NoCall EXCEPT !.returned = "err"]
                    /\ buf' = << >> /\ wire' = << >>
                    /\ UNCHANGED << dispatched, tcp_out, state >>
               ELSE IF r.panic
               THEN /\ exit' = "panic"
                    /\ call' = [NoCall EXCEPT !.returned = "panic",
                                              !.entry = Entry(f.received)]
                    /\ buf' = << >> /\ wire' = << >>
                    /\ UNCHANGED << dispatched, tcp_out, state >>
               ELSE /\ exit' = "running"
                    /\ wire' = f.rest
                    /\ buf' = Consume(f.received, r.processed)
                    /\ call' = [entry |-> Entry(f.received), returned |-> "ok",
                                caex_state |-> r.caex_state, n |-> r.n,
                                processed |-> r.processed]
                    /\ dispatched' =
                         IF r.n = 1
                           THEN Append(dispatched,
                                       [layer |-> r.layer, tag |-> r.tag,
                                        size |-> r.processed])
                           ELSE dispatched
                    /\ tcp_out' = tcp_out \o Response(r.caex_state)
                    /\ state' = NextState(r.caex_state)
    /\ udp_out' = << PLocDatagram >>
    /\ UNCHANGED << citp_tcp_stream, frame_num, conn, sent, connects, dgram >>

\* variant: every frame carries sequence number 0
RECURSIVE Frames_SequenceStuck(_, _)
Frames_SequenceStuck(i, n) ==
    IF i >= NUM_LASERS THEN << >>
    ELSE << [type |-> "LaserFeedFrame", feed_index |-> i, frame_sequence |-> 0] >>
           \o Frames_SequenceStuck(i + 1, n)

\* the LaserFeedFrame datagrams of one Stream tick, feeds i .. NUM_LASERS - 1
RECURSIVE Frames(_, _)
Frames(i, n) ==
    IF i >= NUM_LASERS THEN << >>
    ELSE << [type |-> "LaserFeedFrame", feed_index |-> i, frame_sequence |-> n] >>
           \o Frames(i + 1, n)

\* variant: the Stream arm hands the session back to Request
StreamTick_FallsBack ==
    /\ UNCHANGED codec
    /\ exit = "running" /\ state = "Stream"
    /\ frame_num < MaxFrames
    /\ udp_out' = (IF frame_num % 100 = 0 THEN << PLocDatagram >> ELSE << >>)
                    \o Frames(0, frame_num)
    /\ frame_num' = frame_num + 1
    /\ state' = "Request"
    /\ UNCHANGED << exit, citp_tcp_stream, buf, wire, conn, sent, dispatched,
                    tcp_out, connects, dgram, call >>

\* variant: the Stream arm drains what the peer has sent
StreamTick_DrainsWire ==
    /\ UNCHANGED codec
    /\ exit = "running" /\ state = "Stream"
    /\ frame_num < MaxFrames
    /\ udp_out' = (IF frame_num % 100 = 0 THEN << PLocDatagram >> ELSE << >>)
                    \o Frames(0, frame_num)
    /\ frame_num' = frame_num + 1
    /\ wire' = << >>
    /\ UNCHANGED << state, exit, citp_tcp_stream, buf, conn, sent, dispatched,
                    tcp_out, connects, dgram, call >>

\* State::Stream: a PLoc every 100th frame, one frame per laser
StreamTick ==
    /\ UNCHANGED codec
    /\ exit = "running" /\ state = "Stream"
    /\ frame_num < MaxFrames
    /\ udp_out' = (IF frame_num % 100 = 0 THEN << PLocDatagram >> ELSE << >>)
                    \o Frames(0, frame_num)
    /\ frame_num' = frame_num + 1
    /\ UNCHANGED << state, exit, citp_tcp_stream, buf, wire, conn, sent, dispatched,
                    tcp_out, connects, dgram, call >>

\* the connected peer writes one whole message to its socket
PeerSend ==
    /\ UNCHANGED codec
    /\ exit = "running" /\ citp_tcp_stream /\ conn = "open"
    /\ Len(sent) < MaxMsgs
    /\ \E k \in MsgKinds :
         /\ wire' = wire \o MsgBytes(k)
         /\ sent' = Append(sent, k)
    /\ UNCHANGED << state, exit, citp_tcp_stream, frame_num, buf, conn, dispatched,
                    tcp_out, udp_out, connects, dgram, call >>

\* The peer closes its end.  A reader sees the close only once it has read
\* what was sent before it, so the close is taken at that point.
PeerClose ==
    /\ UNCHANGED codec
    /\ exit = "running" /\ state = "Request" /\ conn = "open"
    /\ buf = << >> /\ wire = << >>
    /\ conn' = "closed"
    /\ UNCHANGED << state, exit, citp_tcp_stream, frame_num, buf, wire, sent, dispatched,
                    tcp_out, udp_out, connects, dgram, call >>

\* The connection is reset: bytes not yet read are lost and the next read
\* fails.  Taken where the next read goes to the socket.
PeerReset ==
    /\ UNCHANGED codec
    /\ exit = "running" /\ state = "Request" /\ conn = "open"
    /\ buf = << >>
    /\ conn' = "reset"
    /\ wire' = << >>
    /\ UNCHANGED << state, exit, citp_tcp_stream, frame_num, buf, sent, dispatched,
                    tcp_out, udp_out, connects, dgram, call >>

Next ==
    \/ InitTick
    \/ ConnectTick
    \/ RequestTick
    \/ StreamTick
    \/ PeerSend
    \/ PeerClose
    \/ PeerReset

Spec == Init /\ [][Next]_vars

\* The Init tick whose join succeeds.  The loop never stops ticking, and the
\* retry is judged under the premise that the join does succeed at some
\* tick: a join that can succeed is not refused for ever.
JoinSucceeds == InitTick /\ state' = "Connect"

LiveSpec == Init /\ [][Next]_vars /\ WF_vars(JoinSucceeds)

\* ------------------------------------------------------- FPTC and SDMX
\* the u16 elements of an array, one after the other
U16sWrite(s) ==
    [i \in 1 .. 2 * Len(s) |-> IF i % 2 = 1 THEN U16Bytes(s[(i + 1) \div 2])[1]
                                             ELSE U16Bytes(s[i \div 2])[2]]

ChannelLevelWrite(ch) ==
    << ch.universe_index >> \o U16Bytes(ch.channel) \o << ch.channel_level >>

RECURSIVE ChannelLevelsWrite(_)
ChannelLevelsWrite(s) ==
    IF s = << >> THEN << >> ELSE ChannelLevelWrite(Head(s)) \o ChannelLevelsWrite(Tail(s))

\* mem::size_of::<ChannelLevel>() of the #[repr(C)] struct { u8, u16, u8 }:
\* the u16 is aligned to 2, so a padding byte follows each u8
ChannelLevelSizeOf == 1 + 1 + 2 + 1 + 1

\* write_to_bytes of the FPTC messages
fptc_write_to_bytes(v) ==
    CASE v.type = "Ptch" ->
             U16Bytes(v.fixture_identifier) \o << v.universe, v.reserved >>
               \o U16Bytes(v.channel) \o U16Bytes(v.channel_count)
               \o CStringWrite(v.fixture_make) \o CStringWrite(v.fixture_name)
      [] v.type = "UPtc" ->
             U16Bytes(Len(v.fixture_identifiers) % 65536) \o U16sWrite(v.fixture_identifiers)
      [] v.type = "SPtc" ->
             U16Bytes(Len(v.fixture_identifiers) % 65536) \o U16sWrite(v.fixture_identifiers)

\* size_bytes of the FPTC messages
fptc_size_bytes(v) ==
    CASE v.type = "Ptch" ->
             2 + 1 + 1 + 2 + 2 + CStringSizeBytes(v.fixture_make)
               + CStringSizeBytes(v.fixture_name)
      [] v.type = "UPtc" -> Len(v.fixture_identifiers) * 2
      [] v.type = "SPtc" -> Len(v.fixture_identifiers) * 2

\* the largest count a u16 holds
U16_MAX == 65535

\* the values whose write_to_bytes returns an error before it writes: only
\* Capa compares the length of its array with u16::MAX
write_error(v) == v.type = "Capa" /\ Len(v.capabilities) > U16_MAX

\* write_to_bytes of the SDMX messages, for the values not refused
sdmx_write_to_bytes(v) ==
    CASE v.type = "Capa" -> U16Bytes(Len(v.capabilities)) \o U16sWrite(v.capabilities)
      [] v.type = "UNam" -> << v.universe_index >> \o CStringWrite(v.universe_name)
      [] v.type = "EnId" -> CStringWrite(v.identifier)
      [] v.type = "ChBk" ->
             << v.blind, v.universe_index >> \o U16Bytes(v.first_channel)
               \o U16Bytes(Len(v.channel_levels) % 65536) \o v.channel_levels
      [] v.type = "ChLs" ->
             U16Bytes(Len(v.channel_levels) % 65536) \o ChannelLevelsWrite(v.channel_levels)
      [] v.type = "SXSr" -> CStringWrite(v.connection_string)
      [] v.type = "Sxus" -> << v.universe_index >> \o CStringWrite(v.connection_string)

\* size_bytes of the SDMX messages
sdmx_size_bytes(v) ==
    CASE v.type = "Capa" -> 2 + Len(v.capabilities) * 2
      [] v.type = "UNam" -> 1 + CStringSizeBytes(v.universe_name)
      [] v.type = "EnId" -> CStringSizeBytes(v.identifier)
      [] v.type = "ChBk" -> 1 + 1 + 2 + 2 + Len(v.channel_levels) * 1
      [] v.type = "ChLs" -> 2 + Len(v.channel_levels) * ChannelLevelSizeOf
      [] v.type = "SXSr" -> CStringSizeBytes(v.connection_string)
      [] v.type = "Sxus" -> 1 + CStringSizeBytes(v.connection_string)

\* write_to_bytes and size_bytes of the FSEL messages
fsel_write_to_bytes(v) ==
    CASE v.type = "Sele" ->
             << v.complete, v.reserved >> \o U16Bytes(Len(v.fixture_identifiers) % 65536)
               \o U16sWrite(v.fixture_identifiers)
      [] v.type = "DeSe" ->
             U16Bytes(Len(v.fixture_identifiers) % 65536) \o U16sWrite(v.fixture_identifiers)

fsel_size_bytes(v) ==
    CASE v.type = "Sele" -> 1 + 1 + 2 + Len(v.fixture_identifiers) * 2
      [] v.type = "DeSe" -> 2 + Len(v.fixture_identifiers) * 2

\* write_to_bytes and size_bytes of the FINF messages
finf_write_to_bytes(v) ==
    CASE v.type = "SFra" ->
             U16Bytes(Len(v.fixture_identifiers) % 65536) \o U16sWrite(v.fixture_identifiers)
      [] v.type = "Fram" ->
             U16Bytes(v.fixture_identifier) \o << v.frame_filter_count, v.frame_gobo_count >>
               \o CStringWrite(v.frame_names)

finf_size_bytes(v) ==
    CASE v.type = "SFra" -> 2 + Len(v.fixture_identifiers) * 2
      [] v.type = "Fram" -> 2 + 1 + 1 + CStringSizeBytes(v.frame_names)

\* ------------------------------------------------- decoders of whole values
\* io::Result of read_from_bytes: the value with the bytes consumed for it,
\* or the error of a read past the end of the buffer
UnexpectedEof == [ok |-> FALSE, error |-> "UnexpectedEof"]

Decoded(v, end) == [ok |-> TRUE, value |-> v, consumed |-> end]

ChannelLevelAt(b, p) ==
    [universe_index |-> b[p + 1], channel |-> U16At(b, p + 1), channel_level |-> b[p + 4]]

\* T::read_from_bytes of an element type T at cursor p, and the bytes it reads
ElemAt(T, b, p) ==
    CASE T = "u8" -> b[p + 1]
      [] T = "u16" -> U16At(b, p)
      [] T = "ChannelLevel" -> ChannelLevelAt(b, p)

ElemSize(T) == CASE T = "u8" -> 1 [] T = "u16" -> 2 [] T = "ChannelLevel" -> 1 + 2 + 1

\* protocol::read_new_vec::<_, T> at cursor p: len elements
read_new_vec(b, p, len, T) ==
    IF p + len * ElemSize(T) > Len(b) THEN UnexpectedEof
    ELSE Decoded([i \in 1 .. len |-> ElemAt(T, b, p + (i - 1) * ElemSize(T))],
                 p + len * ElemSize(T))

\* a message that is a u16 count and that many u16, after skip bytes
CountedU16s(b, skip) ==
    IF Take(b, skip, 2) < 0 THEN UnexpectedEof
    ELSE read_new_vec(b, skip + 2, U16At(b, skip), "u16")

\* the bytes of the CString that starts at cursor p and ends before end
CStringAt(b, p, end) == SubSeq(b, p + 1, end - 1)

pinf_read_from_bytes(type, b) ==
    CASE type = "PNam" ->
             LET end == PNamRead(b, 0)
             IN  IF end < 0 THEN UnexpectedEof
                 ELSE Decoded([type |-> type, name |-> CStringAt(b, 0, end)], end)
      [] type = "PLoc" ->
             LET kind == CStringRead(b, Take(b, 0, 2))
                 name == CStringRead(b, kind)
                 state_end == CStringRead(b, name)
             IN  IF state_end < 0 THEN UnexpectedEof
                 ELSE Decoded([type |-> type, listening_tcp_port |-> U16At(b, 0),
                               kind |-> CStringAt(b, 2, kind),
                               name |-> CStringAt(b, kind, name),
                               state |-> CStringAt(b, name, state_end)], state_end)

fptc_read_from_bytes(type, b) ==
    CASE type = "Ptch" ->
             LET make == CStringRead(b, Take(b, 0, 2 + 1 + 1 + 2 + 2))
                 name == CStringRead(b, make)
             IN  IF name < 0 THEN UnexpectedEof
                 ELSE Decoded([type |-> "Ptch", fixture_identifier |-> U16At(b, 0),
                               universe |-> b[3], reserved |-> b[4],
                               channel |-> U16At(b, 4), channel_count |-> U16At(b, 6),
                               fixture_make |-> CStringAt(b, 8, make),
                               fixture_name |-> CStringAt(b, make, name)], name)
      [] type \in { "UPtc", "SPtc" } ->
             LET vec == CountedU16s(b, 0)
             IN  IF ~vec.ok THEN vec
                 ELSE Decoded([type |-> type, fixture_identifiers |-> vec.value],
                              vec.consumed)

sdmx_read_from_bytes(type, b) ==
    CASE type = "Capa" ->
             LET vec == CountedU16s(b, 0)
             IN  IF ~vec.ok THEN vec
                 ELSE Decoded([type |-> type, capabilities |-> vec.value], vec.consumed)
      [] type \in { "UNam", "Sxus" } ->
             LET end == CStringRead(b, Take(b, 0, 1))
             IN  IF end < 0 THEN UnexpectedEof
                 ELSE IF type = "UNam"
                      THEN Decoded([type |-> type, universe_index |-> b[1],
                                    universe_name |-> CStringAt(b, 1, end)], end)
                      ELSE Decoded([type |-> type, universe_index |-> b[1],
                                    connection_string |-> CStringAt(b, 1, end)], end)
      [] type \in { "EnId", "SXSr" } ->
             LET end == CStringRead(b, 0)
             IN  IF end < 0 THEN UnexpectedEof
                 ELSE IF type = "EnId"
                      THEN Decoded([type |-> type, identifier |-> CStringAt(b, 0, end)], end)
                      ELSE Decoded([type |-> type,
                                    connection_string |-> CStringAt(b, 0, end)], end)
      [] type = "ChBk" ->
             IF Take(b, 0, 1 + 1 + 2 + 2) < 0 THEN UnexpectedEof
             ELSE LET vec == read_new_vec(b, 6, U16At(b, 4), "u8")
                  IN  IF ~vec.ok THEN vec
                      ELSE Decoded([type |-> type, blind |-> b[1], universe_index |-> b[2],
                                    first_channel |-> U16At(b, 2),
                                    channel_levels |-> vec.value], vec.consumed)
      [] type = "ChLs" ->
             IF Take(b, 0, 2) < 0 THEN UnexpectedEof
             ELSE LET vec == read_new_vec(b, 2, U16At(b, 0), "ChannelLevel")
                  IN  IF ~vec.ok THEN vec
                      ELSE Decoded([type |-> type, channel_levels |-> vec.value],
                                   vec.consumed)

fsel_read_from_bytes(type, b) ==
    CASE type = "Sele" ->
             LET vec == CountedU16s(b, 2)
             IN  IF ~vec.ok THEN vec
                 ELSE Decoded([type |-> type, complete |-> b[1], reserved |-> b[2],
                               fixture_identifiers |-> vec.value], vec.consumed)
      [] type = "DeSe" ->
             LET vec == CountedU16s(b, 0)
             IN  IF ~vec.ok THEN vec
                 ELSE Decoded([type |-> type, fixture_identifiers |-> vec.value],
                              vec.consumed)

finf_read_from_bytes(type, b) ==
    CASE type = "SFra" ->
             LET vec == CountedU16s(b, 0)
             IN  IF ~vec.ok THEN vec
                 ELSE Decoded([type |-> type, fixture_identifiers |-> vec.value],
                              vec.consumed)
      [] type = "Fram" ->
             LET end == CStringRead(b, Take(b, 0, 2 + 1 + 1))
             IN  IF end < 0 THEN UnexpectedEof
                 ELSE Decoded([type |-> type, fixture_identifier |-> U16At(b, 0),
                               frame_filter_count |-> b[3], frame_gobo_count |-> b[4],
                               frame_names |-> CStringAt(b, 4, end)], end)

\* ------------------------------------------------------ the CAEX messages
\* byte strings written one after the other
RECURSIVE Concat(_)
Concat(parts) ==
    IF Len(parts) = 0 THEN << >>
    ELSE IF Len(parts) = 1 THEN parts[1]
    ELSE LET half == Len(parts) \div 2
         IN  Concat(SubSeq(parts, 1, half)) \o Concat(SubSeq(parts, half + 1, Len(parts)))

\* the fixture identifiers keep their four bytes; the count written is the
\* fixture_count field
FixtureRemoveWrite(v) == U16Bytes(v.fixture_count) \o Concat(v.fixture_identifiers)

FixtureRemoveSizeBytes(v) == 2 + v.fixture_count * 4

\* the largest count a u8 holds
U8_MAX == 255

\* source_key keeps its four bytes; the count written is the length of
\* feed_names cast to u8, the feed_count field is not written
LaserFeedListWrite(v) ==
    v.source_key \o << Len(v.feed_names) % (U8_MAX + 1) >>
      \o Concat([i \in 1 .. Len(v.feed_names) |-> Ucs2Write(v.feed_names[i])])

LaserFeedListSizeBytes(v) ==
    4 + 1 + Len(Concat([i \in 1 .. Len(v.feed_names) |-> Ucs2Write(v.feed_names[i])]))

\* Identifier::write_to_bytes indexes data[i] for every i below data_size
IdentifierWritePanics(v) == v.data_size > Len(v.data)

caex_write_to_bytes(v) ==
    CASE v.type = "FixtureList" -> FixtureListWrite(v)
      [] v.type = "Identifier" -> IdentifierWrite(v)
      [] v.type = "FixtureRemove" -> FixtureRemoveWrite(v)
      [] v.type = "LaserFeedList" -> LaserFeedListWrite(v)

caex_size_bytes(v) ==
    CASE v.type = "FixtureList" -> FixtureListSizeBytes(v)
      [] v.type = "Identifier" -> IdentifierSizeBytes(v)
      [] v.type = "FixtureRemove" -> FixtureRemoveSizeBytes(v)
      [] v.type = "LaserFeedList" -> LaserFeedListSizeBytes(v)

\* the values a decoder yields at cursor p, where the reads are in bounds
Ucs2At(b, p) == SubSeq(b, p + 3, Ucs2Read(b, p))

IdentifierAt(b, p) ==
    [identifier_type |-> b[p + 1], data_size |-> U16At(b, p + 1),
     data |-> SubSeq(b, p + 4, p + 3 + U16At(b, p + 1))]

RECURSIVE IdentifiersAt(_, _, _)
IdentifiersAt(b, p, n) ==
    IF n = 0 THEN << >>
    ELSE << IdentifierAt(b, p) >> \o IdentifiersAt(b, IdentifierRead(b, p), n - 1)

FixtureDataAt(b, p) ==
    LET unit == Ucs2Read(b, p + 4)
        circuit == Ucs2Read(b, unit + 2)
        note == Ucs2Read(b, circuit)
    IN  [patched |-> b[p + 1], universe |-> b[p + 2], universe_channel |-> U16At(b, p + 2),
         unit |-> Ucs2At(b, p + 4), channel |-> U16At(b, unit),
         circuit |-> Ucs2At(b, unit + 2), note |-> Ucs2At(b, circuit),
         position |-> SubSeq(b, note + 1, note + 12),
         angles |-> SubSeq(b, note + 13, note + 24)]

FixtureAt(b, p) ==
    LET manufacturer == Ucs2Read(b, p + 4)
        fixture == Ucs2Read(b, manufacturer)
        mode == Ucs2Read(b, fixture)
    IN  [fixture_identifier |-> SubSeq(b, p + 1, p + 4),
         manufacturer_name |-> Ucs2At(b, p + 4),
         fixture_name |-> Ucs2At(b, manufacturer),
         mode_name |-> Ucs2At(b, fixture),
         channel_count |-> U16At(b, mode),
         is_dimmer |-> b[mode + 3],
         identifier_count |-> b[mode + 4],
         identifiers |-> IdentifiersAt(b, mode + 4, b[mode + 4]),
         data |-> FixtureDataAt(b, IdentifiersRead(b, mode + 4, b[mode + 4]))]

RECURSIVE FixturesAt(_, _, _)
FixturesAt(b, p, n) ==
    IF n = 0 THEN << >>
    ELSE << FixtureAt(b, p) >> \o FixturesAt(b, FixtureRead(b, p), n - 1)

\* the outcome of a decoder that reaches an unreachable!() arm
Panic == [ok |-> FALSE, error |-> "panic"]

\* the outcome of a decoder whose cursor is Eof or Unreachable
Failed(end) == IF end = Unreachable THEN Panic ELSE UnexpectedEof

caex_read_from_bytes(type, b) ==
    CASE type = "FixtureList" ->
             LET end == FixtureListRead(b, 0)
             IN  IF end < 0 THEN Failed(end)
                 ELSE Decoded([type |-> type, message_type |-> b[1],
                               fixture_count |-> U16At(b, 1),
                               fixtures |-> FixturesAt(b, 3, U16At(b, 1))], end)
      [] type = "Identifier" ->
             LET end == IdentifierRead(b, 0)
             IN  IF end < 0 THEN Failed(end)
                 ELSE Decoded([type |-> type] @@ IdentifierAt(b, 0), end)
      [] type = "FixtureRemove" ->
             IF Take(b, 0, 2) < 0 \/ Take(b, 2, 4 * U16At(b, 0)) < 0 THEN UnexpectedEof
             ELSE Decoded([type |-> type, fixture_count |-> U16At(b, 0),
                           fixture_identifiers |->
                               [i \in 1 .. U16At(b, 0) |-> SubSeq(b, 4 * i - 1, 4 * i + 2)]],
                          2 + 4 * U16At(b, 0))

\* ------------------------------------------------------- values encoded
\* sequences over S of at most n elements
SeqsUpTo(S, n) == UNION { [1 .. k -> S] : k \in 0 .. n }

U16s == { 0, 258, 65535 }

\* the bytes of a CString before its terminator
Strings == SeqsUpTo({ 65, 255 }, MaxLen)

ChannelLevels == [universe_index : { 0, 255 }, channel : { 258 }, channel_level : { 0, 255 }]

HeaderValues ==
    [type : { "Header" },
     cookie : { CITP_COOKIE, << 0, 0, 0, 0 >> },
     version_major : { 1, 255 },
     version_minor : { 0 },
     kind : { 0, 1, 256, 65535 },
     message_size : { 0, 24, 16909060 },
     message_part_count : { 1, 513 },
     message_part : { 0 },
     content_type : { pinf_Header_CONTENT_TYPE, << 255, 254, 253, 252 >> }]

PinfTypes == { "PNam", "PLoc" }

PinfValues ==
    [type : { "PNam" }, name : Strings]
      \cup [type : { "PLoc" }, listening_tcp_port : { 0, 4809 }, kind : Strings,
            name : { << 65 >> }, state : Strings]

FptcTypes == { "Ptch", "UPtc", "SPtc" }

FptcValues ==
    [type : { "Ptch" }, fixture_identifier : { 0, 258 }, universe : { 0, 255 },
     reserved : { 0 }, channel : { 0 }, channel_count : { 1, 512 },
     fixture_make : Strings, fixture_name : Strings]
      \cup [type : { "UPtc", "SPtc" }, fixture_identifiers : SeqsUpTo(U16s, MaxLen)]

SdmxTypes == { "Capa", "UNam", "EnId", "ChBk", "ChLs", "SXSr", "Sxus" }

SdmxValues ==
    [type : { "Capa" }, capabilities : SeqsUpTo(U16s, MaxLen)]
      \cup [type : { "UNam" }, universe_index : { 0, 255 }, universe_name : Strings]
      \cup [type : { "EnId" }, identifier : Strings]
      \cup [type : { "ChBk" }, blind : { 0, 1 }, universe_index : { 0 },
            first_channel : { 0, 258 }, channel_levels : SeqsUpTo({ 0, 255 }, MaxLen)]
      \cup [type : { "ChLs" }, channel_levels : SeqsUpTo(ChannelLevels, MaxLen)]
      \cup [type : { "SXSr" }, connection_string : Strings]
      \cup [type : { "Sxus" }, universe_index : { 0, 255 }, connection_string : Strings]

FselTypes == { "Sele", "DeSe" }

FselValues ==
    [type : { "Sele" }, complete : { 0, 1 }, reserved : { 0 },
     fixture_identifiers : SeqsUpTo(U16s, MaxLen)]
      \cup [type : { "DeSe" }, fixture_identifiers : SeqsUpTo(U16s, MaxLen)]

FinfTypes == { "SFra", "Fram" }

FinfValues ==
    [type : { "SFra" }, fixture_identifiers : SeqsUpTo(U16s, MaxLen)]
      \cup [type : { "Fram" }, fixture_identifier : { 258 }, frame_filter_count : { 0, 1 },
            frame_gobo_count : { 0, 1 }, frame_names : Strings]

\* arrays of the most elements a u16 count holds, and of one more
LongValues ==
    { [type |-> "ChBk", blind |-> 0, universe_index |-> 0, first_channel |-> 0,
       channel_levels |-> [i \in 1 .. n |-> 255]] : n \in { U16_MAX, U16_MAX + 1 } }
      \cup { [type |-> "Capa", capabilities |-> [i \in 1 .. U16_MAX + 1 |-> 0]] }

CaexTypes == { "FixtureList", "Identifier", "FixtureRemove", "LaserFeedList" }

\* an identifier whose data_size is the length of its data
SampleIdentifier == [identifier_type |-> 5, data_size |-> 2, data |-> << 1, 2 >>]

SampleData ==
    [patched |-> 1, universe |-> 0, universe_channel |-> 258, unit |-> << 49, 0 >>,
     channel |-> 1, circuit |-> << >>, note |-> << >>,
     position |-> << 0, 0, 128, 63, 0, 0, 0, 0, 0, 0, 0, 0 >>,
     angles |-> << 0, 0, 0, 0, 0, 0, 0, 0, 0, 0, 0, 0 >>]

\* fixtures whose identifier_count is, or is not, the number of identifiers
Fixtures ==
    { [fixture_identifier |-> << 1, 0, 0, 0 >>, manufacturer_name |-> << 65, 0 >>,
       fixture_name |-> << >>, mode_name |-> << >>, channel_count |-> 512,
       is_dimmer |-> 0, identifier_count |-> c, identifiers |-> ids, data |-> SampleData] :
          c \in { 0, 1 }, ids \in SeqsUpTo({ SampleIdentifier }, 1) }

\* the count fields are set freely of the collections: both are public
CaexValues ==
    [type : { "FixtureList" }, message_type : { 0, 2 }, fixture_count : 0 .. MaxLen,
     fixtures : SeqsUpTo(Fixtures, MaxLen)]
      \cup [type : { "Identifier" }, identifier_type : { 0, 5 }, data_size : 0 .. MaxLen,
            data : SeqsUpTo({ 7 }, MaxLen)]
      \cup [type : { "FixtureRemove" }, fixture_count : 0 .. MaxLen,
            fixture_identifiers :
                SeqsUpTo({ << 1, 0, 0, 0 >>, << 255, 255, 255, 255 >> }, MaxLen)]
      \cup [type : { "LaserFeedList" }, source_key : { << 1, 2, 3, 4 >> }, feed_count : { 0 },
            feed_names : SeqsUpTo({ << >>, << 65, 0 >> }, MaxLen)
                           \cup { [i \in 1 .. U8_MAX + 1 |-> << >>] }]

CodecValues ==
    HeaderValues \cup PinfValues \cup FptcValues \cup SdmxValues \cup FselValues \cup FinfValues
      \cup LongValues \cup CaexValues

\* WriteToBytes::write_to_bytes and SizeBytes::size_bytes, by the value's type
write_to_bytes(v) ==
    IF v.type = "Header" THEN HeaderWrite(v)
    ELSE IF v.type = "PNam" THEN PNamWrite(v)
    ELSE IF v.type = "PLoc" THEN PLocWrite(v)
    ELSE IF v.type \in FptcTypes THEN fptc_write_to_bytes(v)
    ELSE IF v.type \in FselTypes THEN fsel_write_to_bytes(v)
    ELSE IF v.type \in FinfTypes THEN finf_write_to_bytes(v)
    ELSE IF v.type \in CaexTypes THEN caex_write_to_bytes(v)
    ELSE sdmx_write_to_bytes(v)

\* the values whose write_to_bytes panics: an Identifier, by itself or in a
\* fixture of a FixtureList, with fewer data bytes than its data_size
write_panics(v) ==
    CASE v.type = "Identifier" -> IdentifierWritePanics(v)
      [] v.type = "FixtureList" ->
             \E i \in 1 .. Len(v.fixtures) :
                 \E j \in 1 .. Len(v.fixtures[i].identifiers) :
                     IdentifierWritePanics(v.fixtures[i].identifiers[j])
      [] OTHER -> FALSE

size_bytes(v) ==
    IF v.type = "Header" THEN HeaderSizeBytes
    ELSE IF v.type = "PNam" THEN PNamSizeBytes(v)
    ELSE IF v.type = "PLoc" THEN PLocSizeBytes(v)
    ELSE IF v.type \in FptcTypes THEN fptc_size_bytes(v)
    ELSE IF v.type \in FselTypes THEN fsel_size_bytes(v)
    ELSE IF v.type \in FinfTypes THEN finf_size_bytes(v)
    ELSE IF v.type \in CaexTypes THEN caex_size_bytes(v)
    ELSE sdmx_size_bytes(v)

\* ReadFromBytes::read_from_bytes of the type, on the buffer b
read_from_bytes(type, b) ==
    IF type = "Header" THEN HeaderRead(b)
    ELSE IF type \in PinfTypes THEN pinf_read_from_bytes(type, b)
    ELSE IF type \in FptcTypes THEN fptc_read_from_bytes(type, b)
    ELSE IF type \in FselTypes THEN fsel_read_from_bytes(type, b)
    ELSE IF type \in FinfTypes THEN finf_read_from_bytes(type, b)
    ELSE IF type \in CaexTypes THEN caex_read_from_bytes(type, b)
    ELSE sdmx_read_from_bytes(type, b)

\* ------------------------------------------------------ the codec by itself
\* Any value is built; it is then written and measured, unless its encoder
\* refuses it, and what was written is read back.  The session does not run.
CodecInit ==
    /\ SessionInit
    /\ codec \in [stage : { "value" }, value : CodecValues, bytes : { << >> }, size : { 0 },
                  decoded : { [ok |-> FALSE] }]

CodecWrite ==
    /\ codec.stage = "value"
    /\ codec' = IF write_error(codec.value)
                THEN [codec EXCEPT !.stage = "rejected"]
                ELSE IF write_panics(codec.value)
                THEN [codec EXCEPT !.stage = "panicked"]
                ELSE [codec EXCEPT !.stage = "written",
                                   !.bytes = write_to_bytes(codec.value),
                                   !.size = size_bytes(codec.value)]
    /\ UNCHANGED session

\* only the first k bytes of what was written reach the decoder
CodecTruncate ==
    /\ codec.stage = "written" /\ codec.value.type # "LaserFeedList"
    /\ \E k \in 0 .. Min(Len(codec.bytes) - 1, MaxCut) :
           codec' = [codec EXCEPT !.stage = "truncated", !.bytes = SubSeq(codec.bytes, 1, k)]
    /\ UNCHANGED session

\* the type bytes a peer may send: those of the enums, and others
TypeBytes == { 0, 2, 3, 5, 6, 255 }

\* the decoder is given the bytes with another leading type byte, as any
\* peer may send them
CodecAlter ==
    /\ codec.stage = "written" /\ codec.value.type \in { "FixtureList", "Identifier" }
    /\ \E t \in TypeBytes :
           codec' = [codec EXCEPT !.stage = "altered", !.bytes = << t >> \o Tail(codec.bytes)]
    /\ UNCHANGED session

\* LaserFeedList has no ReadFromBytes
CodecRead ==
    /\ codec.stage \in { "written", "truncated", "altered" }
    /\ codec.value.type # "LaserFeedList"
    /\ codec' = [codec EXCEPT !.stage = IF codec.stage = "written" THEN "read"
                                        ELSE "read_" \o codec.stage,
                              !.decoded = read_from_bytes(codec.value.type, codec.bytes)]
    /\ UNCHANGED session

CodecNext ==
    \/ CodecWrite
    \/ CodecTruncate
    \/ CodecAlter
    \/ CodecRead

CodecSpec == CodecInit /\ [][CodecNext]_vars

\* --------------------------------------------------- laser point packing
\* the largest coordinate of a laser point
MAX_COORD == 4093

\* a & b and n << k on unsigned integers
RECURSIVE BitAnd(_, _)
BitAnd(a, b) ==
    IF a = 0 \/ b = 0 THEN 0
    ELSE (a % 2) * (b % 2) + 2 * BitAnd(a \div 2, b \div 2)

Shl(n, k) == n * 2 ^ k

\* variant: the x nibble is packed above the y nibble
LaserPointPack_NibblesSwapped(x, y, color) ==
    [x_low_byte |-> x % 256, y_low_byte |-> y % 256,
     xy_high_nibbles |-> ((x \div 256) % 16) * 16 + ((y \div 256) % 16), color |-> color]

\* the LaserPoint stream_laser_frame builds for the whole coordinates x, y
LaserPointPack(x, y, color) ==
    LET x_nibble == (x \div 256) % 16
        y_nibble == (y \div 256) % 16
    IN  [x_low_byte |-> x % 256, y_low_byte |-> y % 256,
         xy_high_nibbles |-> (y_nibble * 16 + x_nibble) % 256, color |-> color]

\* Point.X and Point.Y as the LaserPoint documentation constructs them
LaserPointUnpack(p) ==
    [x |-> p.x_low_byte + Shl(BitAnd(p.xy_high_nibbles, 15), 8),
     y |-> p.y_low_byte + Shl(BitAnd(p.xy_high_nibbles, 240), 4)]

\* one coordinate in every 256-wide band, with the ends of the range
BandCoords == { 256 * n : n \in 0 .. 15 } \cup { 255, MAX_COORD }

\* every x with a y of every band, and every y with an x of every band
PointValues ==
    [type : { "LaserPoint" }, x : 0 .. MAX_COORD, y : BandCoords, color : { 2016 }]
      \cup [type : { "LaserPoint" }, x : BandCoords, y : 0 .. MAX_COORD, color : { 2016 }]

PointInit ==
    /\ SessionInit
    /\ codec \in [stage : { "point" }, value : PointValues, bytes : { << >> }, size : { 0 },
                  decoded : { [ok |-> FALSE] }]

PointPack ==
    /\ codec.stage = "point"
    /\ LET p == LaserPointPack(codec.value.x, codec.value.y, codec.value.color)
       IN  codec' = [codec EXCEPT !.stage = "packed", !.bytes = LaserPointWrite(p),
                                  !.size = LaserPointSizeBytes(p),
                                  !.decoded = [ok |-> FALSE, point |-> p]]
    /\ UNCHANGED session

PointUnpack ==
    /\ codec.stage = "packed"
    /\ codec' = [codec EXCEPT !.stage = "unpacked",
                              !.decoded = [ok |-> TRUE, point |-> codec.decoded.point,
                                           at |-> LaserPointUnpack(codec.decoded.point)]]
    /\ UNCHANGED session

PointNext ==
    \/ PointPack
    \/ PointUnpack

PointSpec == PointInit /\ [][PointNext]_vars

\* ------------------------------------------------------------ properties
\* what the reader's record of a dispatch must say for a sent message
Descriptor(k) ==
    LET b == MsgBytes(k)
    IN  [layer |-> SubSeq(b, 17, 20), tag |-> SubSeq(b, 21, 24), size |-> U32At(b, 8)]

AllValid(s) == \A i \in DOMAIN s : s[i] \in ValidKinds

\* the dispatches so far are the first messages sent, in order, each of its
\* own size
InStep ==
    /\ Len(dispatched) <= Len(sent)
    /\ \A i \in DOMAIN dispatched : dispatched[i] = Descriptor(sent[i])

KnownLayers ==
    { pinf_Header_CONTENT_TYPE, sdmx_Header_CONTENT_TYPE, caex_Header_CONTENT_TYPE }

\* the message tags read_message has an arm for, per layer
KnownTags(layer) ==
    IF layer = pinf_Header_CONTENT_TYPE THEN { pinf_PNam_CONTENT_TYPE, pinf_PLoc_CONTENT_TYPE }
    ELSE IF layer = sdmx_Header_CONTENT_TYPE THEN { sdmx_Capa_CONTENT_TYPE }
    ELSE IF layer = caex_Header_CONTENT_TYPE
      THEN { caex_Nack_CONTENT_TYPE, caex_GetLaserFeedList_CONTENT_TYPE,
             caex_LaserFeedList_CONTENT_TYPE, caex_LaserFeedControl_CONTENT_TYPE,
             caex_LaserFeedFrame_CONTENT_TYPE, caex_EnterShow_CONTENT_TYPE,
             caex_LeaveShow_CONTENT_TYPE, caex_FixtureListRequest_CONTENT_TYPE,
             caex_FixtureList_CONTENT_TYPE, caex_FixtureRemove_CONTENT_TYPE,
             caex_FixtureConsoleStatus_CONTENT_TYPE }
    ELSE { }

\* a read_message call has been made and this is its record
Called == call.returned # "none"

\* a step of the Request arm (what it leaves alone is looked at first)
RequestStep ==
    /\ sent' = sent /\ conn' = conn /\ frame_num' = frame_num /\ dgram' = dgram
    /\ RequestTick

\* the call found the head of the buffer to be a message cut short: fewer
\* than the 20 envelope bytes, or fewer bytes than its message_size
HeadPartial ==
    /\ Called /\ ~call.entry.empty
    /\ \/ call.entry.size = -1
       \/ call.entry.size >= CITP_HEADER_LEN + CONTENT_TYPE_LEN /\ call.entry.complete = 0

\* C1: whatever the chunks the bytes of valid messages arrive in, the reader
\* does not abort and dispatches the messages sent, in order, each from its
\* own message_size bytes.
C1_FragmentedStreamDispatched ==
    AllValid(sent) => call.returned # "panic" /\ InStep

\* C2: a call that finds less than a whole message dispatches nothing,
\* consumes nothing and returns.
C2_PartialMessageWaits ==
    HeadPartial => call.returned = "ok" /\ call.n = 0 /\ call.processed = 0

\* C3: a call that finds k >= 2 whole messages dispatches all k of them.
C3_BurstDispatchedInOneCall ==
    AllValid(sent) /\ Called /\ call.entry.complete >= 2
      => call.returned = "ok" /\ call.n = call.entry.complete

\* the call found a whole message of a known layer at the head
HeadWholeKnownLayer ==
    Called /\ call.entry.complete >= 1 /\ call.entry.layer \in KnownLayers

UnknownTag(d) == d.layer \in KnownLayers /\ d.tag \notin KnownTags(d.layer)

HeadUnknownTag == HeadWholeKnownLayer /\ UnknownTag(call.entry)

\* the message dispatched after one with an unknown tag is the next one sent
NextAfterUnknownTag ==
    \A i \in 2 .. Len(dispatched) :
        UnknownTag(dispatched[i - 1]) => dispatched[i] = Descriptor(sent[i])

\* C4: a whole message of a known layer with an unknown message tag is
\* passed over: the call returns without a CAEX state and without aborting,
\* the session writes nothing and stays in Request, exactly message_size
\* bytes leave the stream, and the message dispatched next is the next sent.
C4_UnknownTagSkipped ==
    [][ /\ (HeadUnknownTag' /\ RequestStep)
           => /\ exit' = "running"
              /\ call'.returned = "ok"
              /\ call'.caex_state = NoState
              /\ call'.processed = call'.entry.size
              /\ buf' \o wire' = Drop(buf \o wire, call'.entry.size)
              /\ tcp_out' = tcp_out
              /\ state' = state
        /\ NextAfterUnknownTag' ]_vars

\* C4 witness: a message was dispatched after an unknown-tag message
C4_Witness ==
    /\ exit = "running"
    /\ \E i \in 2 .. Len(dispatched) :
         UnknownTag(dispatched[i - 1]) /\ sent[i] \in ValidKinds

\* C5: a whole message of a layer the dispatcher does not know does not
\* abort the reader; it is skipped by exactly message_size bytes.
C5_UnknownLayerSkipped ==
    Called /\ call.entry.complete >= 1 /\ call.entry.layer \notin KnownLayers
      => call.returned = "ok" /\ call.processed = call.entry.size

\* the head frame's payload does not decode from the frame's own bytes
HeadMalformed == HeadWholeKnownLayer /\ LoopBody(call.entry.frame).panic

\* C6: a whole message whose payload fails to decode does not abort the
\* reader, which advances past exactly its message_size.
C6_MalformedPayloadSkipped ==
    HeadMalformed => call.returned = "ok" /\ call.processed = call.entry.size

\* C7: an envelope whose message_size is below the envelope size is fatal:
\* after the call that met it the session is no longer running.
C7_UndersizeEnvelopeFatal ==
    Called /\ call.entry.size >= 0 /\ call.entry.size < CITP_HEADER_LEN
      => exit # "running"

\* C8: once a read in Request has met the loss of the connection (an error,
\* or end-of-stream), the session is no longer running.
C8_ConnectionLossFatal ==
    Called /\ call.entry.empty /\ conn # "open" => exit # "running"

\* C9: no TCP connection is attempted to port 0, and a PLoc announcing
\* port 0 does not move the session to Request.
C9_PortZeroNeverConnects ==
    /\ \A i \in DOMAIN connects : connects[i].port # 0
    /\ dgram \in {"PLoc0", "PLocSelf"} => state = "Connect"

\* the call consumed a framed CAEX FixtureListRequest
ConsumedFixtureListRequest ==
    /\ call.returned = "ok" /\ call.n = 1
    /\ call.entry.layer = caex_Header_CONTENT_TYPE
    /\ call.entry.tag = caex_FixtureListRequest_CONTENT_TYPE

\* C10: the Request tick that consumes a FixtureListRequest writes exactly
\* one FixtureList to the TCP connection and ends in Stream; Stream is
\* entered, and a FixtureList written, in no other step.
C10_FixtureListRequestAnswered ==
    [][ /\ (ConsumedFixtureListRequest' /\ RequestStep)
           => tcp_out' = Append(tcp_out, "FixtureList") /\ state' = "Stream"
        /\ (state # "Stream" /\ state' = "Stream")
           => RequestTick /\ ConsumedFixtureListRequest'
        /\ (tcp_out' # tcp_out /\ tcp_out'[Len(tcp_out')] = "FixtureList")
           => RequestTick /\ ConsumedFixtureListRequest' ]_vars

\* C10 witness: the request was answered once and the session streams
C10_Witness ==
    /\ state = "Stream"
    /\ ConsumedFixtureListRequest
    /\ tcp_out = << "PNam", "FixtureList" >>

\* the call consumed a framed CAEX message with this tag
ConsumedCaex(tag) ==
    /\ call.returned = "ok" /\ call.n = 1
    /\ call.entry.layer = caex_Header_CONTENT_TYPE
    /\ call.entry.tag = tag

\* C11: the Request tick that consumes an EnterShow writes exactly one
\* EnterShow to the TCP connection, the one that consumes a GetLaserFeedList
\* exactly one LaserFeedList, and both leave the state Request.
C11_ShowAndFeedListAnswered ==
    [][ /\ (ConsumedCaex(caex_EnterShow_CONTENT_TYPE)' /\ RequestStep)
           => tcp_out' = Append(tcp_out, "EnterShow") /\ state' = "Request"
        /\ (ConsumedCaex(caex_GetLaserFeedList_CONTENT_TYPE)' /\ RequestStep)
           => tcp_out' = Append(tcp_out, "LaserFeedList") /\ state' = "Request" ]_vars

\* C11 witness: both requests were consumed and answered, in Request
C11_Witness ==
    /\ state = "Request" /\ exit = "running"
    /\ Len(dispatched) = 2
    /\ tcp_out \in { << "PNam", "EnterShow", "LaserFeedList" >>,
                     << "PNam", "LaserFeedList", "EnterShow" >> }

\* the call consumed a message that is none of the three answered ones
ConsumedOther ==
    /\ call.returned = "ok" /\ call.n = 1
    /\ ~ /\ call.entry.layer = caex_Header_CONTENT_TYPE
          /\ call.entry.tag \in { caex_EnterShow_CONTENT_TYPE,
                                  caex_GetLaserFeedList_CONTENT_TYPE,
                                  caex_FixtureListRequest_CONTENT_TYPE }

C13_PNamWrittenFirst ==
    (citp_tcp_stream \/ Called \/ state \in { "Request", "Stream" } \/ tcp_out # << >>)
      => tcp_out # << >> /\ tcp_out[1] = "PNam"

\* C13 witness: the connection has been read from and answered on
C13_Witness ==
    /\ dgram = "PLocN" /\ Called /\ call.returned = "ok"
    /\ Len(tcp_out) = 2 /\ tcp_out[1] = "PNam"

\* C14: an Init tick either moves to Connect or changes nothing at all, the
\* session in Init is always able to tick again, and given that the join
\* succeeds at some tick the session leaves Init for Connect.
C14_JoinRetried ==
    /\ [][ state = "Init"
             => /\ state' \in { "Init", "Connect" }
                /\ UNCHANGED << exit, citp_tcp_stream, frame_num, buf, wire, conn, sent,
                                dispatched, tcp_out, udp_out, connects, dgram, call >> ]_vars
    /\ [](state = "Init" => ENABLED InitTick)
    /\ (state = "Init" ~> state = "Connect")

\* C14 witness: the session has left Init, nothing else having changed
C14_Witness ==
    /\ state = "Connect" /\ exit = "running" /\ dgram = "none"
    /\ ~citp_tcp_stream /\ tcp_out = << >> /\ udp_out = << >>

\* C15: once the state is Stream it is Stream after every step.
C15_StreamAbsorbing ==
    [][ state = "Stream" => state' = "Stream" ]_vars

\* C15 witness: the session has ticked in Stream more than once
C15_Witness == state = "Stream" /\ frame_num > 1

\* the LaserFeedFrame datagrams among those of a tick
LaserFrames(out) == SelectSeq(out, LAMBDA m : m.type = "LaserFeedFrame")

\* C16: a Stream tick sends exactly one LaserFeedFrame per feed index
\* 0 .. NUM_LASERS - 1, in order, with frame_sequence 0 on the first tick
\* and one more than the feed's previous frame on every later tick.
C16_OneFramePerFeedPerTick ==
    [][ StreamTick
          => LET now == LaserFrames(udp_out')
                 before == LaserFrames(udp_out)
             IN  /\ Len(now) = NUM_LASERS
                 /\ \A i \in 1 .. Len(now) :
                      /\ now[i].feed_index = i - 1
                      /\ now[i].frame_sequence =
                           IF before = << >> THEN 0 ELSE before[i].frame_sequence + 1 ]_vars

\* C16 witness: the second Stream tick has sent frame 1 of feed 0
C16_Witness ==
    /\ state = "Stream" /\ frame_num = 2
    /\ LaserFrames(udp_out) = << [type |-> "LaserFeedFrame", feed_index |-> 0,
                                  frame_sequence |-> 1] >>

\* the random source_key of a run, and the laser points of a frame, as samples
SourceKeys == { << 0, 0, 0, 0 >>, << 239, 190, 173, 222 >> }

SamplePoints ==
    { [x_low_byte |-> 0, y_low_byte |-> 0, xy_high_nibbles |-> 0, color |-> 0],
      [x_low_byte |-> 253, y_low_byte |-> 254, xy_high_nibbles |-> 255, color |-> 65535] }

\* the message the session built for an entry of udp_out or of tcp_out
Outgoing(m, source_key, point) ==
    CASE m.type = "PLoc" -> peer_location
      [] m.type = "PNam" -> connect_to_capture
      [] m.type = "FixtureList" -> new_fixture_list
      [] m.type = "LaserFeedFrame" ->
             stream_laser_frame(source_key, m.frame_sequence, m.feed_index, point)

\* the envelope's message_size is the number of bytes written for the
\* message: envelope, layer tag and payload
WholeMessage(msg) ==
    /\ msg.header.citp_header.message_size = Len(MessageWrite(msg))
    /\ msg.header.citp_header.message_size
         = CITP_HEADER_LEN + CONTENT_TYPE_LEN + Len(msg.payload)

\* C17: for every PLoc and LaserFeedFrame sent and every PNam and
\* FixtureList written, message_size is the number of bytes write_to_bytes
\* emits, and the datagram sent is exactly that one message.
C17_MessageSizeIsBytesWritten ==
    \A source_key \in SourceKeys, point \in SamplePoints :
        /\ \A i \in DOMAIN udp_out :
               LET msg == Outgoing(udp_out[i], source_key, point)
               IN  WholeMessage(msg) /\ UdpDatagram(msg) = MessageWrite(msg)
        /\ \A i \in DOMAIN tcp_out :
               tcp_out[i] \in { "PNam", "FixtureList" }
                 => WholeMessage(Outgoing([type |-> tcp_out[i]], source_key, point))

\* C17 witness: all four kinds of message have been sent
C17_Witness ==
    /\ tcp_out = << "PNam", "FixtureList" >>
    /\ Len(udp_out) = 2 /\ udp_out[1].type = "PLoc" /\ udp_out[2].type = "LaserFeedFrame"
    /\ Len(UdpDatagram(peer_location)) = 77
    /\ Len(MessageWrite(connect_to_capture)) = 45

\* the codec has written and measured a value of one of these types
Written(types) == codec.stage \in { "written", "read" } /\ codec.value.type \in types

\* C18: a Header is written as 20 bytes, cookie, version_major,
\* version_minor, kind, message_size, message_part_count, message_part and
\* content_type in this order, the integers little-endian; its size_bytes
\* is 20; and reading the bytes back yields the header that was written,
\* its 16-bit kind as it was.
C18_HeaderRoundTrip ==
    Written({ "Header" })
      => LET h == codec.value
             b == codec.bytes
         IN  /\ Len(b) = 20 /\ codec.size = 20
             /\ SubSeq(b, 1, 4) = h.cookie
             /\ b[5] = h.version_major /\ b[6] = h.version_minor
             /\ b[7] + 256 * b[8] = h.kind
             /\ b[9] + 256 * (b[10] + 256 * (b[11] + 256 * b[12])) = h.message_size
             /\ b[13] + 256 * b[14] = h.message_part_count
             /\ b[15] + 256 * b[16] = h.message_part
             /\ SubSeq(b, 17, 20) = h.content_type
             /\ codec.stage = "read"
                  => codec.decoded = [ok |-> TRUE, cookie |-> h.cookie,
                                      version_major |-> h.version_major,
                                      version_minor |-> h.version_minor,
                                      kind |-> h.kind,
                                      message_size |-> h.message_size,
                                      message_part_count |-> h.message_part_count,
                                      message_part |-> h.message_part,
                                      content_type |-> h.content_type]

\* C18 witness: a header with every 16-bit field above 255 was read back
C18_Witness ==
    /\ codec.stage = "read" /\ codec.value.type = "Header" /\ codec.decoded.ok
    /\ codec.value.kind = 65535 /\ codec.value.message_part_count = 513
    /\ codec.value.message_size = 16909060

\* C19: for a Ptch, a UPtc and an SPtc, size_bytes is the number of bytes
\* write_to_bytes emits.
C19_FptcSizeIsBytesWritten ==
    Written(FptcTypes) => codec.size = Len(codec.bytes)

\* C20: for a Capa, UNam, EnId, ChBk, ChLs, SXSr and Sxus, size_bytes is the
\* number of bytes write_to_bytes emits, which for a ChLs of n channel
\* levels is 2 + n times the bytes emitted for one ChannelLevel.
C20_SdmxSizeIsBytesWritten ==
    /\ Written(SdmxTypes) => codec.size = Len(codec.bytes)
    /\ Written({ "ChLs" })
         => \A ch \in ChannelLevels :
                /\ codec.size
                     = 2 + Len(codec.value.channel_levels) * Len(ChannelLevelWrite(ch))
                /\ Len(codec.bytes)
                     = 2 + Len(codec.value.channel_levels) * Len(ChannelLevelWrite(ch))

\* the types that are an array behind its u16 element count
CountedTypes == { "Capa", "ChBk", "ChLs", "UPtc", "SPtc", "Sele", "DeSe", "SFra" }

\* C21: for a Capa, ChBk, ChLs, UPtc, SPtc, Sele, DeSe and SFra whose
\* encoding succeeded, the empty array and the longest arrays included,
\* reading the written bytes back yields the value that was written and
\* consumes exactly the bytes that were written.
C21_CountedArrayRoundTrip ==
    (codec.stage = "read" /\ codec.value.type \in CountedTypes)
      => codec.decoded = Decoded(codec.value, Len(codec.bytes))

\* the types that are a collection behind a count of its elements, the
\* collection, and the most elements the count field holds
PrefixedTypes == CountedTypes \cup { "LaserFeedList" }

Collection(v) ==
    CASE v.type = "Capa" -> v.capabilities
      [] v.type \in { "ChBk", "ChLs" } -> v.channel_levels
      [] v.type = "LaserFeedList" -> v.feed_names
      [] OTHER -> v.fixture_identifiers

CountMax(v) == IF v.type = "LaserFeedList" THEN U8_MAX ELSE U16_MAX

\* C22: a value whose collection has more elements than its count field
\* holds (65535 for the u16 counts, 255 for the u8 count of a
\* LaserFeedList) is refused by write_to_bytes with an error and no byte of
\* it is written.
C22_OversizeRejected ==
    (/\ codec.stage # "value" /\ codec.value.type \in PrefixedTypes
     /\ Len(Collection(codec.value)) > CountMax(codec.value))
      => codec.stage = "rejected" /\ codec.bytes = << >>

\* C23: in every written FixtureList, Identifier and FixtureRemove the count
\* on the wire is the number of records written after it (fixtures, data
\* bytes, 4-byte fixture identifiers), and reading the bytes back yields the
\* value that was written, the identifiers of each fixture included.
C23_CountIsRecordsWritten ==
    LET v == codec.value
        b == codec.bytes
    IN  (codec.stage \in { "written", "read" }
           /\ v.type \in { "FixtureList", "Identifier", "FixtureRemove" })
          => /\ v.type = "FixtureList" => U16At(b, 1) = Len(v.fixtures)
             /\ v.type = "Identifier" => U16At(b, 1) = Len(b) - 3
             /\ v.type = "FixtureRemove" => U16At(b, 0) * 4 = Len(b) - 2
             /\ codec.stage = "read" => codec.decoded = Decoded(v, Len(b))

\* the decoder was given fewer bytes than it consumes of the whole encoding
ReadTruncated ==
    /\ codec.stage = "read_truncated"
    /\ LET whole == read_from_bytes(codec.value.type, write_to_bytes(codec.value))
       IN  /\ whole.ok
           /\ Len(codec.bytes) < (IF codec.value.type = "Header" THEN HeaderSizeBytes
                                  ELSE whole.consumed)

\* C24: a decoder given a buffer that ends before the value does (a counted
\* array with fewer elements than its count, a CString without its
\* terminator, a fixed-width field cut short) returns the UnexpectedEof
\* error and no value, for every message type.
C24_TruncatedIsUnexpectedEof ==
    ReadTruncated
      => /\ ~codec.decoded.ok
         /\ codec.value.type # "Header" => codec.decoded = UnexpectedEof

\* C24 witness: a ChLs with its count and fewer channel levels than the
\* count, a PLoc cut after its port and a FixtureList cut after its count
\* was answered with the error
C24_Witness ==
    /\ ReadTruncated /\ ~codec.decoded.ok
    /\ \/ codec.value.type = "ChLs" /\ Len(codec.bytes) > 2
       \/ codec.value.type = "PLoc" /\ Len(codec.bytes) > 3
       \/ codec.value.type = "FixtureList" /\ Len(codec.bytes) > 3

NotPLocKinds == { "PNam", "Caex", "Short", "NoTag" }

\* C26: while the session waits for a peer location, a datagram that is not
\* a well-formed PINF / PLoc leaves it running in that state with no
\* connection attempted.
C26_OtherDatagramsIgnored ==
    [][(state = "Connect" /\ exit = "running" /\ dgram' \in NotPLocKinds)
         => (exit' = "running" /\ state' = "Connect" /\ connects' = connects
               /\ ~citp_tcp_stream')]_vars

\* C27: read_from_bytes of a FixtureList and of an Identifier returns a
\* value or an error for every input, a message_type above 2 and an
\* identifier_type above 5 included; it never panics.
C27_DecodersNeverAbort ==
    (codec.stage \in { "read", "read_truncated", "read_altered" }
       /\ codec.value.type \in { "FixtureList", "Identifier" })
      => codec.decoded.ok \/ codec.decoded = UnexpectedEof

\* C28: whenever a LaserFeedFrame is among the datagrams of a tick, the
\* PNam was the first message written to the connection, a
\* FixtureListRequest was the last message read from it and the FixtureList
\* was the last message written to it; and the FixtureList is written in the
\* step that consumes the FixtureListRequest, after the PNam and before any
\* frame.
C28_NoFrameBeforeHandshake ==
    /\ [](LaserFrames(udp_out) # << >>
            => /\ state = "Stream"
               /\ Len(tcp_out) >= 2 /\ tcp_out[1] = "PNam"
               /\ tcp_out[Len(tcp_out)] = "FixtureList"
               /\ dispatched # << >>
               /\ dispatched[Len(dispatched)].layer = caex_Header_CONTENT_TYPE
               /\ dispatched[Len(dispatched)].tag = caex_FixtureListRequest_CONTENT_TYPE)
    /\ [][(tcp_out' # tcp_out /\ tcp_out'[Len(tcp_out')] = "FixtureList")
            => /\ tcp_out # << >> /\ tcp_out[1] = "PNam"
               /\ ConsumedFixtureListRequest'
               /\ Len(dispatched') = Len(dispatched) + 1
               /\ frame_num = 0 /\ LaserFrames(udp_out') = << >>]_vars

\* C28 witness: frames are sent after PNam, an answered EnterShow and the
\* answered FixtureListRequest
C28_Witness ==
    /\ LaserFrames(udp_out) # << >>
    /\ tcp_out = << "PNam", "EnterShow", "FixtureList" >>
    /\ Len(dispatched) = 2

\* C29: a step leaves the state as it is or moves it one step along Init,
\* Connect, Request, Stream; and the TCP connection object exists exactly
\* when the state is Request or Stream.
C29_ForwardOneStep ==
    /\ [][state' = state
            \/ << state, state' >> \in { << "Init", "Connect" >>, << "Connect", "Request" >>,
                                        << "Request", "Stream" >> }]_vars
    /\ [](citp_tcp_stream <=> state \in { "Request", "Stream" })

\* C29 witness: the session went all the way to Stream on its one connection
C29_Witness ==
    /\ state = "Stream" /\ citp_tcp_stream /\ exit = "running"
    /\ Len(connects) = 1 /\ frame_num = 1

====
